---- MODULE Spec2Model ----
(***************************************************************************)
(* Model of class Fracao (src/fracao.py): an exact fraction kept in        *)
(* lowest terms with the sign in the numerator.                            *)
(*                                                                         *)
(* Spec      the heap of Fracao instances and every public operation,      *)
(*           one action per method call; the caller makes a call, then     *)
(*           binds the instance it got to a name or lets it go.            *)
(* SpecCtor  one construction followed step by step (zero check, sign,     *)
(*           the Euclid loop of mdc, simplifica) and then rendered.        *)
(***************************************************************************)
EXTENDS Integers, Sequences, FiniteSets, TLC

\* ---- bounds ------------------------------------------------------------
MaxObjs == 2        \* instances bound to names at once
MaxIn   == 2        \* |argument| of a constructor call in Spec
MaxSize == 3        \* |num| + den of an instance kept on the heap in Spec
MaxNum  == 10       \* |argument| of the constructor call in SpecCtor
MaxK    == 3        \* |scaling factor| used to build equivalent pairs

VARIABLES objs,     \* heap: sequence of instances [num, den]; the index is the identity
          last,     \* the last call: method, arguments, outcome and the heap before it
          pc,       \* SpecCtor: position inside the constructor
          num,      \* SpecCtor: self.num
          den,      \* SpecCtor: self.den
          x,        \* SpecCtor: local x of mdc
          y,        \* SpecCtor: local y of mdc
          divisor,  \* SpecCtor: local divisor of simplifica
          out       \* SpecCtor: text returned by __str__

vars == <<objs, last, pc, num, den, x, y, divisor, out>>
ctorVars == <<pc, num, den, x, y, divisor, out>>

\* ---- helpers of the language ---------------------------------------------
abs(n) == IF n < 0 THEN -n ELSE n

Digit(d) == CASE d = 0 -> "0" [] d = 1 -> "1" [] d = 2 -> "2" [] d = 3 -> "3"
              [] d = 4 -> "4" [] d = 5 -> "5" [] d = 6 -> "6" [] d = 7 -> "7"
              [] d = 8 -> "8" [] d = 9 -> "9"

RECURSIVE Digits(_)
Digits(n) == IF n < 10 THEN Digit(n) ELSE Digits(n \div 10) \o Digit(n % 10)

\* f'{n}' for an int n
FormatInt(n) == IF n < 0 THEN "-" \o Digits(-n) ELSE Digits(n)

\* ---- class Fracao --------------------------------------------------------
Obj(n, d) == [num |-> n, den |-> d]

\* what a call leaves behind: the heap, the returned instance (0: none) and
\* the exception raised ("": none)
Outcome(h, r, e) == [heap |-> h, ret |-> r, err |-> e]

\* one pass of the loop of mdc: x, y = y, x % y
EuclidStep(a, b) == <<b, a % b>>

\* the loop of mdc
RECURSIVE Euclides(_, _)
Euclides(a, b) ==
    IF b # 0
    THEN LET s == EuclidStep(a, b) IN Euclides(s[1], s[2])
    ELSE a

mdc(f) == Euclides(abs(f.num), abs(f.den))

\* simplifica that divides the numerator only
simplifica_num_only(f) ==
    LET d == mdc(f)
    IN  IF d > 1 THEN Obj(f.num \div d, f.den) ELSE f

simplifica(f) ==
    LET d == mdc(f)
    IN  IF d > 1 THEN Obj(f.num \div d, f.den \div d) ELSE f

\* Fracao(n, d): __init__
Fracao(h, n, d) ==
    IF d = 0
    THEN Outcome(h, 0, "ValueError")
    ELSE LET f == IF d < 0 THEN Obj(-n, -d) ELSE Obj(n, d)
         IN  Outcome(Append(h, simplifica(f)), Len(h) + 1, "")

\* str without the branch for whole numbers
str_no_integer(f) ==
    IF f.num = 0 THEN "0"
    ELSE FormatInt(f.num) \o "/" \o FormatInt(f.den)

str(f) ==
    IF f.num = 0 THEN "0"
    ELSE IF f.den = 1 THEN FormatInt(f.num)
    ELSE FormatInt(f.num) \o "/" \o FormatInt(f.den)

\* add that accumulates into self before building the result
add_in_place(h, a, b) ==
    LET h1 == [h  EXCEPT ![a].num = (h[a].num * h[b].den) + (h[a].den * h[b].num)]
        h2 == [h1 EXCEPT ![a].den = h1[a].den * h1[b].den]
    IN  Fracao(h2, h2[a].num, h2[a].den)

\* add whose second term is not scaled by self.den
add_unscaled(h, a, b) ==
    LET novo_num == (h[a].num * h[b].den) + h[b].num
        novo_den == h[a].den * h[b].den
    IN  Fracao(h, novo_num, novo_den)

add(h, a, b) ==
    LET novo_num == (h[a].num * h[b].den) + (h[a].den * h[b].num)
        novo_den == h[a].den * h[b].den
    IN  Fracao(h, novo_num, novo_den)

\* iadd that updates the denominator before the numerator
iadd_den_first(h, a, b) ==
    LET h1 == [h  EXCEPT ![a].den = h[a].den * h[b].den]
        h2 == [h1 EXCEPT ![a].num = (h1[a].num * h1[b].den) + (h1[a].den * h1[b].num)]
        h3 == [h2 EXCEPT ![a] = simplifica(h2[a])]
    IN  Outcome(h3, a, "")

\* the three statements in order, each reading the heap the previous one left,
\* so that b may be the same instance as a
iadd(h, a, b) ==
    LET h1 == [h  EXCEPT ![a].num = (h[a].num * h[b].den) + (h[a].den * h[b].num)]
        h2 == [h1 EXCEPT ![a].den = h1[a].den * h1[b].den]
        h3 == [h2 EXCEPT ![a] = simplifica(h2[a])]
    IN  Outcome(h3, a, "")

\* sub with the sign of add
sub_plus(h, a, b) ==
    LET novo_num == (h[a].num * h[b].den) + (h[a].den * h[b].num)
        novo_den == h[a].den * h[b].den
    IN  Fracao(h, novo_num, novo_den)

sub(h, a, b) ==
    LET novo_num == (h[a].num * h[b].den) - (h[a].den * h[b].num)
        novo_den == h[a].den * h[b].den
    IN  Fracao(h, novo_num, novo_den)

mul(h, a, b) ==
    LET novo_num == h[a].num * h[b].num
        novo_den == h[a].den * h[b].den
    IN  Fracao(h, novo_num, novo_den)

\* truediv whose guard looks at the dividend
truediv_guard_self(h, a, b) ==
    IF h[a].num = 0
    THEN Outcome(h, 0, "ValueError")
    ELSE LET novo_num == h[a].num * h[b].den
             novo_den == h[a].den * h[b].num
         IN  Fracao(h, novo_num, novo_den)

truediv(h, a, b) ==
    IF h[b].num = 0
    THEN Outcome(h, 0, "ValueError")
    ELSE LET novo_num == h[a].num * h[b].den
             novo_den == h[a].den * h[b].num
         IN  Fracao(h, novo_num, novo_den)

\* eq that compares the numerators only
eq_num_only(h, a, b) == h[a].num = h[b].num

\* lt that compares the numerators only
lt_numerators(h, a, b) == h[a].num < h[b].num

eq(h, a, b) == h[a].num = h[b].num /\ h[a].den = h[b].den
lt(h, a, b) == h[a].num * h[b].den < h[b].num * h[a].den
gt(h, a, b) == h[a].num * h[b].den > h[b].num * h[a].den
le(h, a, b) == h[a].num * h[b].den <= h[b].num * h[a].den
ge(h, a, b) == h[a].num * h[b].den >= h[b].num * h[a].den
ne(h, a, b) == ~ eq(h, a, b)

\* ---- Spec: the heap and the calls -----------------------------------------
Ids == 1..Len(objs)
InRange(f) == abs(f.num) + abs(f.den) <= MaxSize
\* the instances the caller holds, plus at most one result not yet bound
Fits(h) == Len(h) <= MaxObjs + 1 /\ \A i \in 1..Len(h) : InRange(h[i])

NoCall == [op |-> "none", a |-> 0, b |-> 0, n |-> 0, d |-> 0,
           ret |-> 0, err |-> "", bool |-> FALSE, text |-> "", pre |-> << >>]

\* record a call that returns an instance or raises; the caller makes one call
\* per statement
Returned(op, a, b, n, d, o) ==
    /\ last.op = "none" /\ Len(objs) <= MaxObjs
    /\ Fits(o.heap)
    /\ objs' = o.heap
    /\ last' = [op |-> op, a |-> a, b |-> b, n |-> n, d |-> d,
                ret |-> o.ret, err |-> o.err, bool |-> FALSE, text |-> "", pre |-> objs]
    /\ UNCHANGED ctorVars

\* record a comparison
Compared(op, a, b, r) ==
    /\ last.op = "none"
    /\ objs' = objs
    /\ last' = [op |-> op, a |-> a, b |-> b, n |-> 0, d |-> 0,
                ret |-> 0, err |-> "", bool |-> r, text |-> "", pre |-> objs]
    /\ UNCHANGED ctorVars

Create == \E n \in -MaxIn..MaxIn, d \in -MaxIn..MaxIn :
              Returned("init", 0, 0, n, d, Fracao(objs, n, d))
Add  == \E a \in Ids, b \in Ids : Returned("add", a, b, 0, 0, add(objs, a, b))
IAdd == \E a \in Ids, b \in Ids : Returned("iadd", a, b, 0, 0, iadd(objs, a, b))
Sub  == \E a \in Ids, b \in Ids : Returned("sub", a, b, 0, 0, sub(objs, a, b))
Mul  == \E a \in Ids, b \in Ids : Returned("mul", a, b, 0, 0, mul(objs, a, b))
Div  == \E a \in Ids, b \in Ids : Returned("truediv", a, b, 0, 0, truediv(objs, a, b))
Eq   == \E a \in Ids, b \in Ids : Compared("eq", a, b, eq(objs, a, b))
Ne   == \E a \in Ids, b \in Ids : Compared("ne", a, b, ne(objs, a, b))
Lt   == \E a \in Ids, b \in Ids : Compared("lt", a, b, lt(objs, a, b))
Gt   == \E a \in Ids, b \in Ids : Compared("gt", a, b, gt(objs, a, b))
Le   == \E a \in Ids, b \in Ids : Compared("le", a, b, le(objs, a, b))
Ge   == \E a \in Ids, b \in Ids : Compared("ge", a, b, ge(objs, a, b))
Str  == \E a \in Ids :
            /\ last.op = "none"
            /\ objs' = objs
            /\ last' = [op |-> "str", a |-> a, b |-> 0, n |-> 0, d |-> 0,
                        ret |-> 0, err |-> "", bool |-> FALSE, text |-> str(objs[a]),
                        pre |-> objs]
            /\ UNCHANGED ctorVars

\* the call allocated the instance it returned
Fresh == last.ret > Len(last.pre)

\* name = <call>: the caller keeps the new instance and goes on
Bind ==
    /\ last.op # "none" /\ Fresh
    /\ Len(objs) <= MaxObjs
    /\ last' = NoCall
    /\ UNCHANGED <<objs, ctorVars>>

\* print(<call>): the caller keeps nothing of the result and goes on; an
\* instance nobody refers to is gone
Discard ==
    /\ last.op # "none"
    /\ objs' = IF Fresh THEN SubSeq(objs, 1, Len(last.pre)) ELSE objs
    /\ last' = NoCall
    /\ UNCHANGED ctorVars

Init ==
    /\ objs = << >>
    /\ last = NoCall
    /\ pc = "idle" /\ num = 0 /\ den = 0 /\ x = 0 /\ y = 0
    /\ divisor = 0 /\ out = ""

Next == \/ Create \/ Add \/ IAdd \/ Sub \/ Mul \/ Div
        \/ Eq \/ Ne \/ Lt \/ Gt \/ Le \/ Ge \/ Str \/ Bind \/ Discard

Spec == Init /\ [][Next]_vars

\* ---- SpecCtor: Fracao(n, d) statement by statement, then str() -------------
InitCtor ==
    /\ objs = << >>
    /\ \E n \in -MaxNum..MaxNum, d \in -MaxNum..MaxNum :
           last = [NoCall EXCEPT !.op = "init", !.n = n, !.d = d]
    /\ pc = "init" /\ num = 0 /\ den = 0 /\ x = 0 /\ y = 0
    /\ divisor = 0 /\ out = ""

\* if den == 0: raise ValueError
CtorRaise ==
    /\ pc = "init" /\ last.d = 0
    /\ pc' = "raised"
    /\ last' = [last EXCEPT !.err = "ValueError"]
    /\ UNCHANGED <<objs, num, den, x, y, divisor, out>>

\* self.num = num; self.den = den
CtorAssign ==
    /\ pc = "init" /\ last.d # 0
    /\ num' = last.n /\ den' = last.d
    /\ pc' = "sign"
    /\ UNCHANGED <<objs, last, x, y, divisor, out>>

\* if self.den < 0: negate both
CtorSign ==
    /\ pc = "sign"
    /\ IF den < 0 THEN num' = -num /\ den' = -den ELSE UNCHANGED <<num, den>>
    /\ pc' = "mdc"
    /\ UNCHANGED <<objs, last, x, y, divisor, out>>

\* x = abs(self.num); y = abs(self.den)
MdcEnter ==
    /\ pc = "mdc"
    /\ x' = abs(num) /\ y' = abs(den)
    /\ pc' = "loop"
    /\ UNCHANGED <<objs, last, num, den, divisor, out>>

\* while y != 0: x, y = y, x % y
MdcLoop ==
    /\ pc = "loop" /\ y # 0
    /\ x' = EuclidStep(x, y)[1] /\ y' = EuclidStep(x, y)[2]
    /\ UNCHANGED <<objs, last, pc, num, den, divisor, out>>

\* mdc that returns y
MdcReturn_y ==
    /\ pc = "loop" /\ y = 0
    /\ divisor' = y
    /\ pc' = "simplifica"
    /\ UNCHANGED <<objs, last, num, den, x, y, out>>

\* return x, received as divisor in simplifica
MdcReturn ==
    /\ pc = "loop" /\ y = 0
    /\ divisor' = x
    /\ pc' = "simplifica"
    /\ UNCHANGED <<objs, last, num, den, x, y, out>>

\* if divisor > 1: divide both fields; the constructor returns
Simplifica ==
    /\ pc = "simplifica"
    /\ IF divisor > 1
       THEN num' = num \div divisor /\ den' = den \div divisor
       ELSE UNCHANGED <<num, den>>
    /\ objs' = <<Obj(num', den')>>
    /\ last' = [last EXCEPT !.ret = 1]
    /\ pc' = "built"
    /\ UNCHANGED <<x, y, divisor, out>>

\* str(f) on the instance just built
StrCall ==
    /\ pc = "built"
    /\ out' = str(objs[1])
    /\ pc' = "done"
    /\ UNCHANGED <<objs, last, num, den, x, y, divisor>>

NextCtor == \/ CtorRaise \/ CtorAssign \/ CtorSign \/ MdcEnter
            \/ MdcLoop \/ MdcReturn \/ Simplifica \/ StrCall

\* the interpreter runs the next statement as long as there is one
SpecCtor == InitCtor /\ [][NextCtor]_vars /\ WF_vars(NextCtor)

\* ---- properties ------------------------------------------------------------
Arith == {"add", "sub", "mul", "truediv"}
Comparisons == {"eq", "ne", "lt", "gt", "le", "ge"}

\* no integer above 1 divides both n and d
Coprime(n, d) == \A k \in 2..d : ~ (n % k = 0 /\ d % k = 0)

Canonical(f) ==
    /\ f.den > 0
    /\ Coprime(abs(f.num), f.den)
    /\ (f.num = 0 => f.den = 1)

\* f and g denote the same rational number
NumEqual(f, g) == f.num * g.den = g.num * f.den

\* f is below g as a rational number, whatever the signs of the denominators
NumLess(f, g) == ((f.num * g.den) - (g.num * f.den)) * (f.den * g.den) < 0

\* r denotes the rational number N/D
Exact(r, N, D) == D # 0 /\ r.num * D = N * r.den

\* C1: after any sequence of public operations every instance on the heap has
\* a positive denominator, coprime fields, and is 0/1 when its numerator is 0.
C1_CanonicalForm == \A i \in Ids : Canonical(objs[i])

\* an in-place add of -1/2 to 1/2 left the receiver at 0/1
C1_Witness ==
    /\ last.op = "iadd" /\ last.a # last.b
    /\ last.pre[last.a] = Obj(1, 2) /\ last.pre[last.b] = Obj(-1, 2)
    /\ objs[last.a] = Obj(0, 1)

\* C2: the only exception is the one raised by the constructor exactly when
\* the denominator is 0 and by division exactly when the divisor's numerator
\* is 0; no other call raises.
C2_ErrorsExactly ==
    /\ last.err \in {"", "ValueError"}
    /\ last.op = "init" => (last.err # "" <=> last.d = 0)
    /\ last.op = "truediv" => (last.err # "" <=> last.pre[last.b].num = 0)
    /\ last.op \notin {"init", "truediv"} => last.err = ""

\* a division by the instance 0/1 raised
C2_Witness ==
    /\ last.op = "truediv" /\ last.err = "ValueError"
    /\ last.pre[last.b] = Obj(0, 1) /\ last.pre[last.a].num # 0

\* C3: add, sub, mul, truediv, the constructor, the comparisons and str leave
\* every existing instance as it was, a call that raises changes nothing, and
\* an in-place add changes no instance but its receiver.
C3_Frame ==
    /\ Len(objs) >= Len(last.pre)
    /\ last.op \in Arith \cup {"init"} =>
           \A i \in 1..Len(last.pre) : objs[i] = last.pre[i]
    /\ last.op \in Comparisons \cup {"str"} => objs = last.pre
    /\ last.err # "" => objs = last.pre
    /\ last.op = "iadd" =>
           /\ Len(objs) = Len(last.pre)
           /\ \A i \in Ids : i # last.a => objs[i] = last.pre[i]

\* an add of two distinct instances returned a third one
C3_Witness ==
    /\ last.op = "add" /\ last.a # last.b /\ last.err = ""
    /\ last.ret = Len(last.pre) + 1
    /\ objs[last.ret] # objs[last.a] /\ objs[last.ret] # objs[last.b]

\* C4: on instances produced by the operations, == is true exactly when the
\* two denote the same number, != is its negation, and Fracao(k*n, k*d)
\* equals Fracao(n, d) for every k # 0.
C4_Equality ==
    /\ \A a \in Ids, b \in Ids : eq(objs, a, b) <=> NumEqual(objs[a], objs[b])
    /\ last.op = "eq" =>
           (last.bool <=> NumEqual(last.pre[last.a], last.pre[last.b]))
    /\ last.op = "ne" =>
           (last.bool <=> ~ NumEqual(last.pre[last.a], last.pre[last.b]))
    /\ (last.op = "init" /\ last.err = "") =>
           \A k \in (-MaxK..MaxK) \ {0} :
               LET o == Fracao(objs, k * last.n, k * last.d)
               IN  o.err = "" /\ eq(o.heap, last.ret, o.ret)

\* == answered True for two distinct instances
C4_Witness ==
    /\ last.op = "eq" /\ last.a # last.b /\ last.bool
    /\ last.pre[last.a].den = 2

\* C5: of <, == and > exactly one holds, <= is (< or ==), >= is (> or ==),
\* and < is the order of the rational numbers, negative ones included.
C5_Ordering ==
    /\ \A a \in Ids, b \in Ids :
           LET L == lt(objs, a, b)
               E == eq(objs, a, b)
               G == gt(objs, a, b)
           IN  /\ \/ (L /\ ~ E /\ ~ G) \/ (~ L /\ E /\ ~ G) \/ (~ L /\ ~ E /\ G)
               /\ le(objs, a, b) <=> (L \/ E)
               /\ ge(objs, a, b) <=> (G \/ E)
               /\ L <=> NumLess(objs[a], objs[b])
    /\ last.op \in {"lt", "gt", "le", "ge"} =>
           LET f == last.pre[last.a]
               g == last.pre[last.b]
           IN  last.bool <=> CASE last.op = "lt" -> NumLess(f, g)
                               [] last.op = "gt" -> NumLess(g, f)
                               [] last.op = "le" -> ~ NumLess(g, f)
                               [] last.op = "ge" -> ~ NumLess(f, g)

\* < answered True for a negative half against a positive instance
C5_Witness ==
    /\ last.op = "lt" /\ last.bool
    /\ last.pre[last.a] = Obj(-1, 2) /\ last.pre[last.b].num > 0

\* C6: after a += b the receiver holds the fields a + b would have returned,
\* the call returns the receiver and allocates nothing, also when b is a.
C6_IAddAgreesWithAdd ==
    last.op = "iadd" =>
        LET o == add(last.pre, last.a, last.b)
        IN  /\ last.err = "" /\ o.err = ""
            /\ last.ret = last.a
            /\ Len(objs) = Len(last.pre)
            /\ objs[last.a] = o.heap[o.ret]

\* a += a on 1/2 left 1/1 in the receiver
C6_Witness ==
    /\ last.op = "iadd" /\ last.a = last.b
    /\ last.pre[last.a] = Obj(1, 2) /\ objs[last.a] = Obj(1, 1)

\* C7: the instance returned by add, sub, mul and truediv is canonical and
\* denotes exactly the number given by the operation's formula.
C7_ExactArithmetic ==
    (last.op \in Arith /\ last.err = "") =>
        LET f == last.pre[last.a]
            g == last.pre[last.b]
            r == objs[last.ret]
        IN  /\ Canonical(r)
            /\ CASE last.op = "add" ->
                        Exact(r, (f.num * g.den) + (f.den * g.num), f.den * g.den)
                 [] last.op = "sub" ->
                        Exact(r, (f.num * g.den) - (f.den * g.num), f.den * g.den)
                 [] last.op = "mul" ->
                        Exact(r, f.num * g.num, f.den * g.den)
                 [] last.op = "truediv" ->
                        Exact(r, f.num * g.den, f.den * g.num)

\* 1/2 divided by a negative instance returned -1/1
C7_Witness ==
    /\ last.op = "truediv" /\ last.err = ""
    /\ last.pre[last.a] = Obj(1, 2) /\ last.pre[last.b].num < 0
    /\ objs[last.ret] = Obj(-1, 1)

\* C8: a + b == b + a.
C8_AddCommutes ==
    (last.op = "add" /\ last.err = "") =>
        LET o == add(objs, last.b, last.a)
        IN  o.err = "" /\ eq(o.heap, last.ret, o.ret)

\* an add of two instances that denote different numbers
C8_Witness ==
    /\ last.op = "add" /\ last.err = ""
    /\ ~ NumEqual(last.pre[last.a], last.pre[last.b])
    /\ last.pre[last.a].den # last.pre[last.b].den

NormalizedArgs == IF last.d < 0 THEN Obj(-last.n, -last.d) ELSE Obj(last.n, last.d)

\* C9: str gives "0" for numerator 0, the numerator alone for denominator 1,
\* "num/den" otherwise, and changes no field; Fracao(1,-2), Fracao(5,10) and
\* Fracao(8,4) give "-1/2", "1/2" and "2".
C9_Rendering ==
    pc = "done" =>
        /\ objs = <<Obj(num, den)>>
        /\ NumEqual(objs[1], NormalizedArgs)
        /\ num = 0 => out = "0"
        /\ (num # 0 /\ den = 1) => out = FormatInt(num)
        /\ (num # 0 /\ den # 1) => out = FormatInt(num) \o "/" \o FormatInt(den)
        /\ (last.n = 1 /\ last.d = -2) => out = "-1/2"
        /\ (last.n = 5 /\ last.d = 10) => out = "1/2"
        /\ (last.n = 8 /\ last.d = 4) => out = "2"

\* Fracao(1, -2) was built and rendered
C9_Witness == pc = "done" /\ last.n = 1 /\ last.d = -2 /\ out = "-1/2"

Max(a, b) == IF a > b THEN a ELSE b

\* g is the greatest common divisor of a and b
IsGcd(g, a, b) ==
    /\ g >= 1 /\ a % g = 0 /\ b % g = 0
    /\ \A k \in (g + 1)..Max(a, b) : ~ (a % k = 0 /\ b % k = 0)

C10_Result ==
    /\ pc \in {"simplifica", "built", "done"} =>
           /\ IsGcd(divisor, abs(NormalizedArgs.num), abs(NormalizedArgs.den))
           /\ NormalizedArgs.num = 0 => divisor = abs(last.d)
    /\ pc \in {"built", "done"} =>
           /\ num * divisor = NormalizedArgs.num
           /\ den * divisor = NormalizedArgs.den
           /\ (Obj(num, den) = NormalizedArgs) <=> (divisor = 1)

\* C10: the loop of mdc ends for every numerator and non-zero denominator, the
\* value returned is the greatest common divisor (at least 1, |den| when the
\* numerator is 0), and simplifica changes the fields exactly when it is not 1.
C10_MdcTerminates == [] C10_Result /\ (pc = "loop" ~> pc = "simplifica")

\* the loop ran on (0, 7), returned 7 and the instance became 0/1
C10_Witness ==
    /\ pc = "built" /\ last.n = 0 /\ last.d = -7
    /\ divisor = 7 /\ num = 0 /\ den = 1
====
